---------------------------- MODULE Spec2Model ----------------------------
(***************************************************************************)
(* elasticache-redis-cost: run() of the main package.                      *)
(*                                                                         *)
(* The main goroutine validates its arguments, reads the Redis addresses,  *)
(* starts an errgroup with a job producer, min(len(redises), workerCap)    *)
(* stats workers and one pricing goroutine, joins them with group.Wait and *)
(* then matches every measurement against the sorted catalog.              *)
(*                                                                         *)
(* Conventions of the model:                                               *)
(*  - Go slices are TLA+ sequences, so index i of the code is i+1 here.    *)
(*  - Byte quantities are scaled: one GiB is 2^GiBBits model bytes, so     *)
(*    that the values fit the model checker's integers. Every value the    *)
(*    model computes stays far below 2^64, as the code's do for any        *)
(*    memory size below 16 EiB, so the uint64 arithmetic never wraps.      *)
(*    The one exception is the number in the no-plan error, bytes<<30,     *)
(*    which wraps in the code from 16 GiB on and is kept unwrapped here.   *)
(*  - Decimal texts ("0.5 GiB", "0.017") are kept as the number they       *)
(*    denote: memory texts as a fraction n/d of a GiB with d a power of    *)
(*    two (exact in float32), prices in thousandths of a dollar.           *)
(***************************************************************************)
EXTENDS Integers, Sequences, FiniteSets, TLC

\* ---------------------------------------------------------------- bounds

\* most addresses in the input file
MaxRedises == 2
\* most records in the pricing service's answer
MaxRecords == 2
\* most offerings of a catalog handed to match directly
MaxOfs == 3
\* log2 of the model's bytes per GiB (30 in the code)
GiBBits == 10

GiB == 2 ^ GiBBits

\* --------------------------------------------------------- program constants

workerCap == 10

defaultReservedMemoryPercent == 25

\* ------------------------------------------------------------------ values

NoError == [kind |-> "nil", addr |-> "", metric |-> "", printed |-> 0]

Error(kind, addr) == [kind |-> kind, addr |-> addr, metric |-> "", printed |-> 0]

\* fmt.Errorf("no matching plan for %q with %d GiB of <metric> memory: %w",
\*            ri.Addr, bytes<<30, err)
NoPlanError(addr, metric, bytes) ==
    [kind |-> "no matching offering found", addr |-> addr,
     metric |-> metric, printed |-> bytes * GiB]

ZeroOffering == [Memory |-> 0, PricePerHour |-> 0, InstanceType |-> ""]

ZeroStats == [Addr |-> "", UsedBytes |-> 0, PeakBytes |-> 0]

\* Min without the cap: its first argument
MinUncapped(a, b) == a

Min(a, b) == IF a < b THEN a ELSE b

\* ------------------------------------------------------- Offerings.match

\* Fits with the multiplication done before the division
FitsMultiplyFirst(o, size, maxLoadPct) == (o.Memory * maxLoadPct) \div 100 >= size

\* Fits with the remainder of the division by 100 in place of the quotient
FitsRemainder(o, size, maxLoadPct) == (o.Memory % 100) * maxLoadPct >= size

\* Fits with the division by 100 rounded up
FitsRoundedUp(o, size, maxLoadPct) == ((o.Memory + 99) \div 100) * maxLoadPct >= size

\* Fits with the load percent taken as the share to keep free
FitsHeadroom(o, size, maxLoadPct) == (o.Memory \div 100) * (100 - maxLoadPct) >= size

\* the predicate handed to sort.Search
Fits(o, size, maxLoadPct) == (o.Memory \div 100) * maxLoadPct >= size

\* a bisection with the test of the predicate inverted
RECURSIVE SearchInverted(_, _, _, _, _)
SearchInverted(ofs, size, maxLoadPct, i, j) ==
    IF i < j
    THEN LET h == (i + j) \div 2
         IN  IF Fits(ofs[h + 1], size, maxLoadPct)
             THEN SearchInverted(ofs, size, maxLoadPct, h + 1, j)
             ELSE SearchInverted(ofs, size, maxLoadPct, i, h)
    ELSE i

\* sort.Search(n, f): the smallest index in [i, j) for which f holds, found
\* by bisection (0-based i, j, h as in the Go code; ofs[h + 1] is ofs[h]).
RECURSIVE Search(_, _, _, _, _)
Search(ofs, size, maxLoadPct, i, j) ==
    IF i < j
    THEN LET h == (i + j) \div 2
         IN  IF ~Fits(ofs[h + 1], size, maxLoadPct)
             THEN Search(ofs, size, maxLoadPct, h + 1, j)
             ELSE Search(ofs, size, maxLoadPct, i, h)
    ELSE i

\* match that takes the index after the one the search found
matchOffByOne(ofs, size, maxLoadPct) ==
    LET i == Search(ofs, size, maxLoadPct, 0, Len(ofs)) + 1
    IN  IF i < Len(ofs)
        THEN [of |-> ofs[i + 1], err |-> NoError]
        ELSE [of |-> ZeroOffering, err |-> Error("no matching offering found", "")]

\* match that takes the offering of the largest capacity when it fits
matchLargest(ofs, size, maxLoadPct) ==
    IF Len(ofs) > 0 /\ Fits(ofs[Len(ofs)], size, maxLoadPct)
    THEN [of |-> ofs[Len(ofs)], err |-> NoError]
    ELSE [of |-> ZeroOffering, err |-> Error("no matching offering found", "")]

match(ofs, size, maxLoadPct) ==
    LET i == Search(ofs, size, maxLoadPct, 0, Len(ofs))
    IN  IF i < Len(ofs)
        THEN [of |-> ofs[i + 1], err |-> NoError]
        ELSE [of |-> ZeroOffering, err |-> Error("no matching offering found", "")]

\* -------------------------------------------------- Offerings.sortByMemory

\* less with the comparison turned round
lessDescending(a, b) == a.Memory > b.Memory

less(a, b) == a.Memory < b.Memory

\* one pass of insertion sort: sink the last element of s to its place
RECURSIVE Sink(_, _)
Sink(s, j) ==
    IF j > 1 /\ less(s[j], s[j - 1])
    THEN Sink([s EXCEPT ![j] = s[j - 1], ![j - 1] = s[j]], j - 1)
    ELSE s

\* sort.Slice on a slice of at most 6 elements is a plain insertion sort
\* (from 7 elements on a Shell pass precedes it, from 13 on a quicksort)
RECURSIVE InsertionSort(_, _)
InsertionSort(s, i) ==
    IF i > Len(s) THEN s ELSE InsertionSort(Sink(s, i), i + 1)

sortByMemory(ofs) == InsertionSort(ofs, 2)

\* ------------------------------------------------ the pricing service's data

\* Instance types with a published exact maxmemory value (maxmemory.go, which
\* parse-maxmemory generates; two of its entries, in model bytes).
maxmemoryValues ==
    [t \in {"cache.r5.large", "cache.r5.xlarge"} |->
        IF t = "cache.r5.large" THEN 13387 ELSE 26953]

\* attributes.instanceType of a product: a string, or anything else
InstanceTypeAttrs ==
    {[isString |-> TRUE, s |-> t] :
        t \in {"cache.r5.large", "cache.r5.xlarge", "cache.x9.new"}}
      \cup {[isString |-> FALSE, s |-> ""]}

\* attributes.memory of a product: not a string; a string without the
\* " GiB" suffix; "<text> GiB" where the text is no number; "<n/d> GiB"
MemoryNumbers ==
    {<<0, 1>>, <<0 - 1, 2>>, <<1, 2 * GiB>>, <<1, 8>>, <<1, 2>>, <<25, 1>>}

MemoryAttrs ==
    {[isString |-> FALSE, hasSuffix |-> FALSE, isNumber |-> FALSE, n |-> 0, d |-> 1],
     [isString |-> TRUE, hasSuffix |-> FALSE, isNumber |-> TRUE, n |-> 1, d |-> 2],
     [isString |-> TRUE, hasSuffix |-> TRUE, isNumber |-> FALSE, n |-> 0, d |-> 1]}
      \cup {[isString |-> TRUE, hasSuffix |-> TRUE, isNumber |-> TRUE,
             n |-> q[1], d |-> q[2]] : q \in MemoryNumbers}

\* OnDemand...pricePerUnit.USD of the terms: not a string; a string that is
\* no number; a decimal number (thousandths of a dollar)
PriceAttrs ==
    {[isString |-> FALSE, isNumber |-> FALSE, v |-> 0],
     [isString |-> TRUE, isNumber |-> FALSE, v |-> 0],
     [isString |-> TRUE, isNumber |-> TRUE, v |-> 17],
     [isString |-> TRUE, isNumber |-> TRUE, v |-> 0 - 17]}

Ok(v) == [err |-> NoError, v |-> v]

Fail(kind, zero) == [err |-> Error(kind, ""), v |-> zero]

extractInstanceType(data) ==
    IF ~data.isString THEN Fail("cannot convert to string", "")
    ELSE Ok(data.s)

extractMemory(data) ==
    IF ~data.isString THEN Fail("cannot convert to string", 0)
    ELSE IF ~data.hasSuffix THEN Fail("unsupported memory spec format", 0)
    ELSE IF ~data.isNumber THEN Fail("strconv.ParseFloat", 0)
    ELSE IF data.n <= 0 THEN Fail("unexpected memory value", 0)
    ELSE Ok((data.n * GiB) \div data.d)

extractPrice(data) ==
    IF ~data.isString THEN Fail("cannot convert to string", 0)
    ELSE IF ~data.isNumber THEN Fail("strconv.ParseFloat", 0)
    ELSE Ok(data.v)

\* the correction with the multiplication done before the division
correctedMultiplyFirst(base, resMemPct) == base - (base * resMemPct) \div 100

\* memory = base - (base / 100 * uint64(args.resMemPct))
corrected(base, resMemPct) == base - (base \div 100) * resMemPct

\* the capacity of the offering built from one record
correctedMemory(instanceType, memory, resMemPct) ==
    IF instanceType \in DOMAIN maxmemoryValues
    THEN corrected(maxmemoryValues[instanceType], resMemPct)
    ELSE corrected(memory, resMemPct)

\* one record of the price list
RawRecord(memory, instanceType, price) ==
    [memory |-> memory, instanceType |-> instanceType, price |-> price]

\* the Offering the loop body builds from a record all of whose fields parse
OfferingOf(rec, resMemPct) ==
    [Memory |-> correctedMemory(extractInstanceType(rec.instanceType).v,
                                extractMemory(rec.memory).v, resMemPct),
     PricePerHour |-> extractPrice(rec.price).v,
     InstanceType |-> extractInstanceType(rec.instanceType).v]

\* the first error of the loop body on a record, in the order the code
\* extracts: memory, instance type, price
RecordError(rec) ==
    IF extractMemory(rec.memory).err # NoError
    THEN extractMemory(rec.memory).err
    ELSE IF extractInstanceType(rec.instanceType).err # NoError
    THEN extractInstanceType(rec.instanceType).err
    ELSE extractPrice(rec.price).err

\* --------------------------------------------------------------- arguments

Regions == {"", "us-east-1", "mars-north-1"}

Inputs == {"", "redises.txt"}

\* -max-load and -reserved-memory-percent values the run is explored with
MaxLoadPcts == {0, 80, 101}

ResMemPcts == {0 - 1, defaultReservedMemoryPercent, 101}

\* endpoints.AwsPartition().Regions()
AwsRegions == {"us-east-1"}

\* validate with 0 accepted as -max-load
validateFromZero(a) ==
    IF a.region = "" THEN Error("region cannot be empty", "")
    ELSE IF a.input = "" THEN Error("input file must be set", "")
    ELSE IF a.maxLoadPct < 0 \/ a.maxLoadPct > 100
    THEN Error("max-load must be in [1,100] percent range", "")
    ELSE IF a.resMemPct < 0 \/ a.resMemPct > 100
    THEN Error("reserved-memory-percent must be in [0,100] range", "")
    ELSE NoError

validate(a) ==
    IF a.region = "" THEN Error("region cannot be empty", "")
    ELSE IF a.input = "" THEN Error("input file must be set", "")
    ELSE IF a.maxLoadPct < 1 \/ a.maxLoadPct > 100
    THEN Error("max-load must be in [1,100] percent range", "")
    ELSE IF a.resMemPct < 0 \/ a.resMemPct > 100
    THEN Error("reserved-memory-percent must be in [0,100] range", "")
    ELSE NoError

\* ------------------------------------------------------------------- state

VARIABLES
    args,         \* runArgs
    pcMain,       \* where run() is
    runErr,       \* what run() returned (NoError until it returns an error)
    redises,      \* the addresses read from the input
    redisesInfo,  \* []RedisStats, preallocated, filled by the workers
    maxWorkers,
    pcProd,       \* the job producer: "none", "send", "done", "canceled"
    prodIdx,      \* how many jobs the producer has sent
    jobsClosed,   \* close(jobs) has run
    workers,      \* per worker: its job and pc: "recv", "fetch", and how it
                  \* returned: "done" (nil), "failed", "canceled"
    pcPrice,      \* the pricing goroutine: "none", "get", "loop", and how
                  \* it returned: "done" (nil), "failed", "canceled"
    priceList,    \* res.PriceList
    priceIdx,     \* how many records the loop has consumed
    offerings,    \* the catalog
    groupErr,     \* errgroup.Group.err, set once
    ctxDone,      \* the group's context is cancelled
    firstFailure, \* history: the first non-nil error a goroutine returned
    matchIdx,     \* how many measurements the matching loop has consumed
    plan1,
    plan2,
    rows,
    report        \* what was written: <<>> or <<rows>>

vars == <<args, pcMain, runErr, redises, redisesInfo, maxWorkers, pcProd,
          prodIdx, jobsClosed, workers, pcPrice, priceList, priceIdx,
          offerings, groupErr, ctxDone, firstFailure, matchIdx, plan1, plan2,
          rows, report>>

mainVars == <<args, pcMain, runErr, redises, maxWorkers, matchIdx, plan1,
              plan2, rows, report>>

prodVars == <<pcProd, prodIdx, jobsClosed>>

priceVars == <<pcPrice, priceList, priceIdx, offerings>>

groupVars == <<groupErr, ctxDone, firstFailure>>

\* ------------------------------------------------------------------ inputs

\* the i-th line of the input file
Addr(i) == IF i % 2 = 1 THEN "r1:6379" ELSE "r2:6379"

\* what readAddresses can return for an input of at most MaxRedises lines
AddrLists == {[i \in 1..n |-> Addr(i)] : n \in 0..MaxRedises}

\* <<used_memory, used_memory_peak>> pairs a server can report
StatPairs == {<<200, 200>>, <<200, 30000>>, <<30000, 30000>>}

RawRecords ==
    {RawRecord(m, t, p) : m \in MemoryAttrs, t \in InstanceTypeAttrs, p \in PriceAttrs}

\* the records the run is explored with: "0.5 GiB" of an instance type
\* without an exact maxmemory value, "25 GiB" of one with it, and a record
\* whose memory text is no number
RunRecords ==
    {r \in RawRecords :
        \/ /\ RecordError(r) = NoError
           /\ r.memory.n = 1 /\ r.memory.d = 2
           /\ r.instanceType.s = "cache.x9.new"
           /\ r.price.v = 17
        \/ /\ RecordError(r) = NoError
           /\ r.memory.n = 25
           /\ r.instanceType.s = "cache.r5.large"
           /\ r.price.v = 17
        \/ /\ r.memory.isString /\ r.memory.hasSuffix /\ ~r.memory.isNumber
           /\ r.instanceType.s = "cache.r5.large"
           /\ r.price.isNumber /\ r.price.v = 17}

\* price lists of at most MaxRecords records; the loop returns at the first
\* record that does not parse, so such a record is the last of its list
PriceLists(records) ==
    {l \in UNION {[1..n -> records] : n \in 0..MaxRecords} :
        \A i \in 1..(Len(l) - 1) : RecordError(l[i]) = NoError}

\* -------------------------------------------------------------------- Init

\* run(a) is called
Called(a) ==
    /\ args = a
    /\ pcMain = "validate"
    /\ runErr = NoError
    /\ redises = <<>>
    /\ redisesInfo = <<>>
    /\ maxWorkers = 0
    /\ pcProd = "none"
    /\ prodIdx = 0
    /\ jobsClosed = FALSE
    /\ workers = <<>>
    /\ pcPrice = "none"
    /\ priceList = <<>>
    /\ priceIdx = 0
    /\ offerings = <<>>
    /\ groupErr = NoError
    /\ ctxDone = FALSE
    /\ firstFailure = NoError
    /\ matchIdx = 0
    /\ plan1 = ZeroOffering
    /\ plan2 = ZeroOffering
    /\ rows = <<>>
    /\ report = <<>>

Init ==
    \E a \in [region : Regions, input : Inputs,
              maxLoadPct : MaxLoadPcts, resMemPct : ResMemPcts] : Called(a)

\* ------------------------------------------------------------ main, part 1

\* run() returns err
Return(err) ==
    /\ runErr' = err
    /\ pcMain' = "done"

\* if err := args.validate(); err != nil { return err }
Validate ==
    /\ pcMain = "validate"
    /\ IF validate(args) # NoError
       THEN Return(validate(args))
       ELSE pcMain' = "setup" /\ UNCHANGED runErr
    /\ UNCHANGED <<args, redises, redisesInfo, maxWorkers, matchIdx, plan1,
                   plan2, rows, report, prodVars, workers, priceVars, groupVars>>

\* region lookup, os.Open, readAddresses, the empty-list check, NewSession
Setup(lists) ==
    /\ pcMain = "setup"
    /\ \/ /\ args.region \notin AwsRegions
          /\ Return(Error("unsupported region", ""))
          /\ UNCHANGED redises
       \/ /\ args.region \in AwsRegions
          /\ \E e \in {"open", "readAddresses", "session.NewSession"} :
                Return(Error(e, ""))
          /\ UNCHANGED redises
       \/ /\ args.region \in AwsRegions
          /\ \E l \in lists :
                /\ redises' = l
                /\ IF Len(l) = 0
                   THEN Return(Error("no Redis addresses to work on", ""))
                   ELSE pcMain' = "start" /\ UNCHANGED runErr
    /\ UNCHANGED <<args, redisesInfo, maxWorkers, matchIdx, plan1, plan2, rows,
                   report, prodVars, workers, priceVars, groupVars>>

\* maxWorkers, the preallocation of redisesInfo, and the group.Go calls: the
\* producer, maxWorkers workers and the pricing goroutine. A goroutine that
\* runs before a later one is started behaves as one that runs while the
\* later one has not been scheduled yet, so the starts are one step.
Start ==
    /\ pcMain = "start"
    /\ maxWorkers' = Min(Len(redises), workerCap)
    /\ redisesInfo' = [i \in 1..Len(redises) |-> ZeroStats]
    /\ pcProd' = "send"
    /\ workers' = [w \in 1..Min(Len(redises), workerCap) |->
                     [pc |-> "recv", addr |-> "", index |-> 0]]
    /\ pcPrice' = "get"
    /\ pcMain' = "wait"
    /\ UNCHANGED <<args, runErr, redises, matchIdx, plan1, plan2, rows, report,
                   prodIdx, jobsClosed, priceList, priceIdx, offerings,
                   groupVars>>

\* ---------------------------------------------------------------- errgroup

\* GroupReturn without errOnce: the last non-nil error is kept
GroupReturnLastWins(err) ==
    /\ groupErr' = IF err # NoError THEN err ELSE groupErr
    /\ ctxDone' = (ctxDone \/ err # NoError)
    /\ firstFailure' = IF err # NoError /\ firstFailure = NoError
                     THEN err ELSE firstFailure

\* A function started by group.Go returned err: errOnce keeps the first
\* non-nil error and cancels the group's context.
GroupReturn(err) ==
    /\ groupErr' = IF err # NoError /\ groupErr = NoError THEN err ELSE groupErr
    /\ ctxDone' = (ctxDone \/ err # NoError)
    /\ firstFailure' = IF err # NoError /\ firstFailure = NoError
                     THEN err ELSE firstFailure

Canceled(addr) == Error("context canceled", addr)

\* ---------------------------------------------------------- the job producer

\* ProducerSend that gives every job the index of the first address
ProducerSendFirstIndex(w) ==
    /\ pcProd = "send"
    /\ prodIdx < Len(redises)
    /\ workers[w].pc = "recv"
    /\ workers' = [workers EXCEPT ![w] = [pc |-> "fetch",
                                          addr |-> redises[prodIdx + 1],
                                          index |-> 1]]
    /\ prodIdx' = prodIdx + 1
    /\ UNCHANGED <<mainVars, redisesInfo, pcProd, jobsClosed, priceVars, groupVars>>

\* select: jobs <- addrAndIndex{addr, i}, taken together with the receive of
\* worker w (jobs is unbuffered)
ProducerSend(w) ==
    /\ pcProd = "send"
    /\ prodIdx < Len(redises)
    /\ workers[w].pc = "recv"
    /\ workers' = [workers EXCEPT ![w] = [pc |-> "fetch",
                                          addr |-> redises[prodIdx + 1],
                                          index |-> prodIdx + 1]]
    /\ prodIdx' = prodIdx + 1
    /\ UNCHANGED <<mainVars, redisesInfo, pcProd, jobsClosed, priceVars, groupVars>>

\* select: <-ctx.Done(): return ctx.Err(), then the deferred close(jobs)
ProducerCanceled ==
    /\ pcProd = "send"
    /\ prodIdx < Len(redises)
    /\ ctxDone
    /\ pcProd' = "canceled"
    /\ jobsClosed' = TRUE
    /\ GroupReturn(Canceled(""))
    /\ UNCHANGED <<mainVars, redisesInfo, prodIdx, workers, priceVars>>

\* ProducerDone without the deferred close(jobs)
ProducerDoneNoClose ==
    /\ pcProd = "send"
    /\ prodIdx = Len(redises)
    /\ pcProd' = "done"
    /\ jobsClosed' = FALSE
    /\ GroupReturn(NoError)
    /\ UNCHANGED <<mainVars, redisesInfo, prodIdx, workers, priceVars>>

\* the range over redises is exhausted: return nil, then close(jobs)
ProducerDone ==
    /\ pcProd = "send"
    /\ prodIdx = Len(redises)
    /\ pcProd' = "done"
    /\ jobsClosed' = TRUE
    /\ GroupReturn(NoError)
    /\ UNCHANGED <<mainVars, redisesInfo, prodIdx, workers, priceVars>>

\* ------------------------------------------------------------ a stats worker

\* WorkerFetched that fills the slots in the order the fetches finish
WorkerFetchedInArrivalOrder(w, stats) ==
    /\ workers[w].pc = "fetch"
    /\ \E st \in stats :
          LET k == CHOOSE i \in 1..Len(redisesInfo) :
                       /\ redisesInfo[i] = ZeroStats
                       /\ \A h \in 1..(i - 1) : redisesInfo[h] # ZeroStats
          IN  redisesInfo' = [redisesInfo EXCEPT ![k] =
                                 [Addr |-> workers[w].addr,
                                  UsedBytes |-> st[1], PeakBytes |-> st[2]]]
    /\ workers' = [workers EXCEPT ![w].pc = "recv"]
    /\ UNCHANGED <<mainVars, prodVars, priceVars, groupVars>>

\* redisMemory returned used, peak: the worker fills its job's slot
WorkerFetched(w, stats) ==
    /\ workers[w].pc = "fetch"
    /\ \E st \in stats :
          redisesInfo' = [redisesInfo EXCEPT ![workers[w].index] =
                             [Addr |-> workers[w].addr,
                              UsedBytes |-> st[1], PeakBytes |-> st[2]]]
    /\ workers' = [workers EXCEPT ![w].pc = "recv"]
    /\ UNCHANGED <<mainVars, prodVars, priceVars, groupVars>>

\* redisMemory returned an error of its own (dial, timeout, parse), or, once
\* the context is cancelled, the cancellation: return "addr: err"
WorkerFailed(w) ==
    /\ workers[w].pc = "fetch"
    /\ \/ /\ GroupReturn(Error("redisMemory", workers[w].addr))
          /\ workers' = [workers EXCEPT ![w].pc = "failed"]
       \/ /\ ctxDone
          /\ GroupReturn(Canceled(workers[w].addr))
          /\ workers' = [workers EXCEPT ![w].pc = "canceled"]
    /\ UNCHANGED <<mainVars, redisesInfo, prodVars, priceVars>>

\* the range over jobs ends when jobs is closed: return nil
WorkerDone(w) ==
    /\ workers[w].pc = "recv"
    /\ jobsClosed
    /\ workers' = [workers EXCEPT ![w].pc = "done"]
    /\ GroupReturn(NoError)
    /\ UNCHANGED <<mainVars, redisesInfo, prodVars, priceVars>>

\* ------------------------------------------------------ the pricing goroutine

\* svc.GetProductsWithContext returned the price list
PricingGot(lists) ==
    /\ pcPrice = "get"
    /\ \E l \in lists : priceList' = l
    /\ pcPrice' = "loop"
    /\ UNCHANGED <<mainVars, redisesInfo, prodVars, workers, priceIdx,
                   offerings, groupVars>>

\* svc.GetProductsWithContext returned an error of its own, or, once the
\* context is cancelled, the cancellation
PricingGetFailed ==
    /\ pcPrice = "get"
    /\ \/ /\ GroupReturn(Error("GetProducts", ""))
          /\ pcPrice' = "failed"
       \/ /\ ctxDone
          /\ GroupReturn(Canceled(""))
          /\ pcPrice' = "canceled"
    /\ UNCHANGED <<mainVars, redisesInfo, prodVars, workers, priceList,
                   priceIdx, offerings>>

\* one round of the loop over res.PriceList whose record parses: the
\* corrected offering is appended
PricingRecord ==
    /\ pcPrice = "loop"
    /\ priceIdx < Len(priceList)
    /\ RecordError(priceList[priceIdx + 1]) = NoError
    /\ offerings' = Append(offerings,
                           OfferingOf(priceList[priceIdx + 1], args.resMemPct))
    /\ priceIdx' = priceIdx + 1
    /\ UNCHANGED <<mainVars, redisesInfo, prodVars, workers, pcPrice,
                   priceList, groupVars>>

\* one round of the loop whose record does not parse: return err
PricingRecordFailed ==
    /\ pcPrice = "loop"
    /\ priceIdx < Len(priceList)
    /\ RecordError(priceList[priceIdx + 1]) # NoError
    /\ GroupReturn(RecordError(priceList[priceIdx + 1]))
    /\ pcPrice' = "failed"
    /\ UNCHANGED <<mainVars, redisesInfo, prodVars, workers, priceList,
                   priceIdx, offerings>>

\* the loop is over: offerings.sortByMemory(); return nil
PricingDone ==
    /\ pcPrice = "loop"
    /\ priceIdx = Len(priceList)
    /\ offerings' = sortByMemory(offerings)
    /\ pcPrice' = "done"
    /\ GroupReturn(NoError)
    /\ UNCHANGED <<mainVars, redisesInfo, prodVars, workers, priceList, priceIdx>>

\* ------------------------------------------------------------ main, part 2

Returned == {"done", "failed", "canceled"}

\* wg.Wait() without the pricing goroutine
AllReturnedButPricing ==
    /\ pcProd \in Returned
    /\ \A w \in DOMAIN workers : workers[w].pc \in Returned

\* wg.Wait(): every function started by group.Go has returned
AllReturned ==
    /\ pcProd \in Returned
    /\ \A w \in DOMAIN workers : workers[w].pc \in Returned
    /\ pcPrice \in Returned

\* group.Wait() with its error dropped
WaitIgnoringError ==
    /\ pcMain = "wait"
    /\ AllReturned
    /\ pcMain' = "matchUsed"
    /\ ctxDone' = TRUE
    /\ UNCHANGED <<args, runErr, redises, redisesInfo, maxWorkers, matchIdx,
                   plan1, plan2, rows, report, prodVars, workers, priceVars,
                   groupErr, firstFailure>>

\* if err := group.Wait(); err != nil { return err }
Wait ==
    /\ pcMain = "wait"
    /\ AllReturned
    /\ IF groupErr # NoError
       THEN Return(groupErr)
       ELSE pcMain' = "matchUsed" /\ UNCHANGED runErr
    /\ ctxDone' = TRUE
    /\ UNCHANGED <<args, redises, redisesInfo, maxWorkers, matchIdx, plan1,
                   plan2, rows, report, prodVars, workers, priceVars,
                   groupErr, firstFailure>>

\* MatchUsed that goes on to the next measurement when nothing matches
MatchUsedSkipping ==
    /\ pcMain = "matchUsed"
    /\ matchIdx < Len(redisesInfo)
    /\ LET ri == redisesInfo[matchIdx + 1]
           m == match(offerings, ri.UsedBytes, args.maxLoadPct)
       IN  IF m.err # NoError
           THEN matchIdx' = matchIdx + 1 /\ UNCHANGED <<plan1, pcMain>>
           ELSE plan1' = m.of /\ pcMain' = "matchPeak" /\ UNCHANGED matchIdx
    /\ UNCHANGED <<args, runErr, redises, redisesInfo, maxWorkers, plan2,
                   rows, report, prodVars, workers, priceVars, groupVars>>

\* the loop over redisesInfo: plan1, err := offerings.match(ri.UsedBytes, ...)
MatchUsed ==
    /\ pcMain = "matchUsed"
    /\ matchIdx < Len(redisesInfo)
    /\ LET ri == redisesInfo[matchIdx + 1]
           m == match(offerings, ri.UsedBytes, args.maxLoadPct)
       IN  IF m.err # NoError
           THEN Return(NoPlanError(ri.Addr, "used", ri.UsedBytes))
                  /\ UNCHANGED plan1
           ELSE plan1' = m.of /\ pcMain' = "matchPeak" /\ UNCHANGED runErr
    /\ UNCHANGED <<args, redises, redisesInfo, maxWorkers, matchIdx, plan2,
                   rows, report, prodVars, workers, priceVars, groupVars>>

\* plan2, err := offerings.match(ri.PeakBytes, ...)
MatchPeak ==
    /\ pcMain = "matchPeak"
    /\ LET ri == redisesInfo[matchIdx + 1]
           m == match(offerings, ri.PeakBytes, args.maxLoadPct)
       IN  IF m.err # NoError
           THEN Return(NoPlanError(ri.Addr, "peak", ri.PeakBytes))
                  /\ UNCHANGED plan2
           ELSE plan2' = m.of /\ pcMain' = "append" /\ UNCHANGED runErr
    /\ UNCHANGED <<args, redises, redisesInfo, maxWorkers, matchIdx, plan1,
                   rows, report, prodVars, workers, priceVars, groupVars>>

\* rows = append(rows, reportRow{...}); a ratio float64(a)/float64(b)*100 is
\* kept as the pair <<a * 100, b>>
AppendRow ==
    /\ pcMain = "append"
    /\ LET ri == redisesInfo[matchIdx + 1]
       IN  rows' = Append(rows,
                     [Redis |-> ri,
                      UsedRatio |-> <<ri.UsedBytes * 100, plan1.Memory>>,
                      PeakRatio |-> <<ri.PeakBytes * 100, plan2.Memory>>,
                      UsedBased |-> plan1,
                      PeakBased |-> plan2])
    /\ matchIdx' = matchIdx + 1
    /\ pcMain' = "matchUsed"
    /\ UNCHANGED <<args, runErr, redises, redisesInfo, maxWorkers, plan1, plan2,
                   report, prodVars, workers, priceVars, groupVars>>

\* the loop is over: the report (text, CSV or HTML) is written from rows;
\* writing can fail
WriteReport ==
    /\ pcMain = "matchUsed"
    /\ matchIdx = Len(redisesInfo)
    /\ report' = <<rows>>
    /\ \E e \in {NoError, Error("write", "")} : Return(e)
    /\ UNCHANGED <<args, redises, redisesInfo, maxWorkers, matchIdx, plan1,
                   plan2, rows, prodVars, workers, priceVars, groupVars>>

\* ---------------------------------------------------------- specifications

\* run() on the address lists, server statistics and price lists given
Run(lists, stats, priceLists) ==
    \/ Validate
    \/ Setup(lists)
    \/ Start
    \/ \E w \in DOMAIN workers : ProducerSend(w)
    \/ ProducerCanceled
    \/ ProducerDone
    \/ \E w \in DOMAIN workers : WorkerFetched(w, stats)
    \/ \E w \in DOMAIN workers : WorkerFailed(w)
    \/ \E w \in DOMAIN workers : WorkerDone(w)
    \/ PricingGot(priceLists)
    \/ PricingGetFailed
    \/ PricingRecord
    \/ PricingRecordFailed
    \/ PricingDone
    \/ Wait
    \/ MatchUsed
    \/ MatchPeak
    \/ AppendRow
    \/ WriteReport

RunPriceLists == PriceLists(RunRecords)

Next == Run(AddrLists, StatPairs, RunPriceLists)

Spec == Init /\ [][Next]_vars

\* ------------------------------------- the catalog's construction: SpecCatalog

\* -reserved-memory-percent values the construction is explored with
CatalogResMemPcts == {0, 1, defaultReservedMemoryPercent, 99, 100}

\* records the construction is explored with: every memory text that parses
\* for an instance type without an exact maxmemory value, "0.5 GiB" for the
\* two types with one, and one record for each field that does not parse
CatalogRecords ==
    {r \in RawRecords :
        \/ /\ RecordError(r) = NoError
           /\ r.price.v = 17
           /\ \/ r.instanceType.s \notin DOMAIN maxmemoryValues
              \/ r.memory.n = 1 /\ r.memory.d = 2
        \/ /\ ~r.memory.isString
           /\ r.instanceType.s = "cache.x9.new"
           /\ r.price.isNumber /\ r.price.v = 17
        \/ /\ r.memory.n = 25
           /\ ~r.instanceType.isString
           /\ r.price.isNumber /\ r.price.v = 17
        \/ /\ r.memory.n = 25
           /\ r.instanceType.s = "cache.x9.new"
           /\ ~r.price.isString}

CatalogPriceLists == PriceLists(CatalogRecords)

InitCatalog ==
    \E r \in CatalogResMemPcts :
        Called([region |-> "us-east-1", input |-> "redises.txt",
                maxLoadPct |-> 80, resMemPct |-> r])

\* run() on one address whose server reports 200 bytes used and at peak
NextCatalog == Run({<<Addr(1)>>}, {<<200, 200>>}, CatalogPriceLists)

SpecCatalog == InitCatalog /\ [][NextCatalog]_vars

\* ------------------------------------------ records that do not parse: SpecRecords

\* records the rejection is explored with: "25 GiB" of an instance type
\* without an exact maxmemory value at a price of 17, and every record that
\* differs from it in one field
OneFieldRecords ==
    {r \in RawRecords :
        LET m == r.memory.isNumber /\ r.memory.n = 25
            t == r.instanceType.s = "cache.x9.new"
            p == r.price.isNumber /\ r.price.v = 17
        IN  (m /\ t) \/ (m /\ p) \/ (t /\ p)}

RecordsPriceLists == PriceLists(OneFieldRecords)

InitRecords ==
    Called([region |-> "us-east-1", input |-> "redises.txt",
            maxLoadPct |-> 80, resMemPct |-> defaultReservedMemoryPercent])

\* run() on one address whose server reports 200 bytes used and at peak
NextRecords == Run({<<Addr(1)>>}, {<<200, 200>>}, RecordsPriceLists)

SpecRecords == InitRecords /\ [][NextRecords]_vars

\* ------------------------------------------- the arguments' ranges: SpecArgs

\* -max-load and -reserved-memory-percent values at and next to the ends of
\* their ranges
ArgMaxLoadPcts == {0, 1, 100, 101}

ArgResMemPcts == {0 - 1, 0, 100, 101}

InitArgs ==
    \E a \in [region : {"", "us-east-1"}, input : Inputs,
              maxLoadPct : ArgMaxLoadPcts, resMemPct : ArgResMemPcts] : Called(a)

\* run() on one address whose server reports 200 bytes used and at peak
NextArgs == Run({<<Addr(1)>>}, {<<200, 200>>}, RunPriceLists)

SpecArgs == InitArgs /\ [][NextArgs]_vars

\* --------------------------------------------------- the worker pool: SpecPool

\* an input of one address more than the cap on the workers
PoolRedises == [i \in 1..(workerCap + 1) |-> Addr(i)]

\* run() about to start its goroutines on an input of at most MaxRedises
\* addresses
PoolStarting ==
    /\ pcMain = "start"
    /\ \E l \in AddrLists : Len(l) > 0 /\ redises = l
    /\ redisesInfo = <<>>
    /\ maxWorkers = 0
    /\ pcProd = "none"
    /\ prodIdx = 0
    /\ workers = <<>>
    /\ pcPrice = "none"

\* run() on PoolRedises after the group.Go calls, at the moment when the
\* producer has handed the i-th job to the i-th worker for the first
\* workerCap jobs (a worker beyond those is waiting for a job), no fetch has
\* returned yet and the pricing goroutine has returned nil with an empty
\* price list
PoolBusy ==
    /\ pcMain = "wait"
    /\ redises = PoolRedises
    /\ redisesInfo = [i \in 1..Len(PoolRedises) |-> ZeroStats]
    /\ maxWorkers = Min(Len(PoolRedises), workerCap)
    /\ pcProd = "send"
    /\ prodIdx = workerCap
    /\ workers = [w \in 1..Min(Len(PoolRedises), workerCap) |->
                     IF w <= workerCap
                     THEN [pc |-> "fetch", addr |-> PoolRedises[w], index |-> w]
                     ELSE [pc |-> "recv", addr |-> "", index |-> 0]]
    /\ pcPrice = "done"

InitPool ==
    /\ args = [region |-> "us-east-1", input |-> "redises.txt",
               maxLoadPct |-> 80, resMemPct |-> defaultReservedMemoryPercent]
    /\ runErr = NoError
    /\ PoolStarting \/ PoolBusy
    /\ jobsClosed = FALSE
    /\ priceList = <<>>
    /\ priceIdx = 0
    /\ offerings = <<>>
    /\ groupErr = NoError
    /\ ctxDone = FALSE
    /\ firstFailure = NoError
    /\ matchIdx = 0
    /\ plan1 = ZeroOffering
    /\ plan2 = ZeroOffering
    /\ rows = <<>>
    /\ report = <<>>

\* the goroutines and the join when no fetch and no request fails, with
\* servers that report 200 bytes used and at peak and an empty price list
NextPool ==
    \/ Start
    \/ \E w \in DOMAIN workers : ProducerSend(w)
    \/ ProducerDone
    \/ \E w \in DOMAIN workers : WorkerFetched(w, {<<200, 200>>})
    \/ \E w \in DOMAIN workers : WorkerDone(w)
    \/ PricingGot({<<>>})
    \/ PricingDone
    \/ Wait

SpecPool == InitPool /\ [][NextPool]_vars

\* ------------------------------------------ the run, fairly scheduled: SpecFair

InitFair ==
    Called([region |-> "us-east-1", input |-> "redises.txt",
            maxLoadPct |-> 80, resMemPct |-> defaultReservedMemoryPercent])

\* price lists of at most one record
FairPriceLists == {l \in RunPriceLists : Len(l) <= 1}

\* run() on servers that report 200 bytes used and at peak
NextFair == Run(AddrLists, {<<200, 200>>}, FairPriceLists)

\* the steps of the job producer
Producer ==
    \/ \E w \in DOMAIN workers : ProducerSend(w)
    \/ ProducerCanceled
    \/ ProducerDone

\* the steps of worker w after it received a job: redisMemory returns, one
\* way or the other, and the worker returns when jobs is closed
Worker(w) ==
    /\ w \in DOMAIN workers
    /\ \/ WorkerFetched(w, {<<200, 200>>})
       \/ WorkerFailed(w)
       \/ WorkerDone(w)

\* the steps of the pricing goroutine: the request returns, one way or the
\* other, and the loop goes on
Pricing ==
    \/ PricingGot(FairPriceLists)
    \/ PricingGetFailed
    \/ PricingRecord
    \/ PricingRecordFailed
    \/ PricingDone

\* the workers there can be
WorkerIds == 1..Min(MaxRedises, workerCap)

\* every goroutine that can take a step eventually takes one, and so does
\* group.Wait once every goroutine has returned
SpecFair ==
    /\ InitFair
    /\ [][NextFair]_vars
    /\ WF_vars(Producer)
    /\ \A w \in WorkerIds : WF_vars(Worker(w))
    /\ WF_vars(Pricing)
    /\ WF_vars(Wait)

\* ---------------------------------------------- match on its own: SpecMatch

\* capacities and load percents match is explored with
MatchCaps == {0, 99, 100, 150, 250}

MatchPcts == {1, 50, 100}

\* required sizes: 0 and, for every capacity and percent, the load-adjusted
\* capacity computed either way round, and one byte more
MatchSizes ==
    {0} \cup {(c \div 100) * p + d : c \in MatchCaps, p \in MatchPcts, d \in {0, 1}}
        \cup {(c * p) \div 100 + d : c \in MatchCaps, p \in MatchPcts, d \in {0, 1}}

\* catalogs of at most MaxOfs offerings, ordered as sortByMemory leaves them;
\* the i-th offering is of instance type "t<i>"
SortedCatalogs ==
    {[i \in 1..Len(caps) |->
        [Memory |-> caps[i], PricePerHour |-> 17, InstanceType |-> "t" \o ToString(i)]] :
     caps \in {c \in UNION {[1..n -> MatchCaps] : n \in 0..MaxOfs} :
                 \A i \in 1..(Len(c) - 1) : c[i] <= c[i + 1]}}

\* run() just after group.Wait returned nil, with one measurement and any
\* sorted catalog (the price list it was built from is not kept)
InitMatch ==
    /\ \E p \in MatchPcts :
          args = [region |-> "us-east-1", input |-> "redises.txt",
                  maxLoadPct |-> p, resMemPct |-> defaultReservedMemoryPercent]
    /\ pcMain = "matchUsed"
    /\ runErr = NoError
    /\ redises = <<Addr(1)>>
    /\ \E used \in MatchSizes, peak \in MatchSizes :
          /\ used <= peak
          /\ redisesInfo = <<[Addr |-> Addr(1), UsedBytes |-> used, PeakBytes |-> peak]>>
    /\ maxWorkers = 1
    /\ pcProd = "done"
    /\ prodIdx = 1
    /\ jobsClosed = TRUE
    /\ workers = <<[pc |-> "done", addr |-> Addr(1), index |-> 1]>>
    /\ pcPrice = "done"
    /\ priceList = <<>>
    /\ priceIdx = 0
    /\ offerings \in SortedCatalogs
    /\ groupErr = NoError
    /\ ctxDone = TRUE
    /\ firstFailure = NoError
    /\ matchIdx = 0
    /\ plan1 = ZeroOffering
    /\ plan2 = ZeroOffering
    /\ rows = <<>>
    /\ report = <<>>

NextMatch ==
    \/ MatchUsed
    \/ MatchPeak
    \/ AppendRow
    \/ WriteReport

SpecMatch == InitMatch /\ [][NextMatch]_vars

\* ------------------------------------------- match and the prices: SpecPrices

\* capacities, prices per hour, load percents and required sizes match is
\* explored with when the prices vary
PricedCaps == {99, 100, 250}

Prices == {1, 2, 3}

PricedPcts == {50, 100}

PricedSizes ==
    {(c \div 100) * p + d : c \in PricedCaps, p \in PricedPcts, d \in {0, 1}}

\* catalogs of at most MaxOfs offerings, ordered as sortByMemory leaves them,
\* with any prices; the i-th offering is of instance type "t<i>"
PricedCatalogs ==
    UNION {{[i \in 1..Len(caps) |->
               [Memory |-> caps[i], PricePerHour |-> prices[i],
                InstanceType |-> "t" \o ToString(i)]] :
            prices \in [1..Len(caps) -> Prices]} :
           caps \in {c \in UNION {[1..n -> PricedCaps] : n \in 0..MaxOfs} :
                       \A i \in 1..(Len(c) - 1) : c[i] <= c[i + 1]}}

\* run() just after group.Wait returned nil, with one measurement whose used
\* and peak bytes are the same, and any sorted catalog with any prices
InitPrices ==
    /\ \E p \in PricedPcts :
          args = [region |-> "us-east-1", input |-> "redises.txt",
                  maxLoadPct |-> p, resMemPct |-> defaultReservedMemoryPercent]
    /\ pcMain = "matchUsed"
    /\ runErr = NoError
    /\ redises = <<Addr(1)>>
    /\ \E size \in PricedSizes :
          redisesInfo = <<[Addr |-> Addr(1), UsedBytes |-> size, PeakBytes |-> size]>>
    /\ maxWorkers = 1
    /\ pcProd = "done"
    /\ prodIdx = 1
    /\ jobsClosed = TRUE
    /\ workers = <<[pc |-> "done", addr |-> Addr(1), index |-> 1]>>
    /\ pcPrice = "done"
    /\ priceList = <<>>
    /\ priceIdx = 0
    /\ offerings \in PricedCatalogs
    /\ groupErr = NoError
    /\ ctxDone = TRUE
    /\ firstFailure = NoError
    /\ matchIdx = 0
    /\ plan1 = ZeroOffering
    /\ plan2 = ZeroOffering
    /\ rows = <<>>
    /\ report = <<>>

SpecPrices == InitPrices /\ [][NextMatch]_vars

\* ------------------------------------------------------------------ claims

\* "fits" as the catalog's query contract defines it: the capacity, floor-
\* divided by 100 first, times the load percent covers the size
FitsAt(i, size) == (offerings[i].Memory \div 100) * args.maxLoadPct >= size

\* the measurement the matching loop is at
Ri == redisesInfo[matchIdx + 1]

\* the loop has matched the used bytes of the measurement it is at
UsedMatched == pcMain \in {"matchPeak", "append"}

\* the loop has matched its peak bytes too
PeakMatched == pcMain = "append"

\* run() returned because no offering matched the given metric
NoPlan(metric) ==
    /\ pcMain = "done"
    /\ runErr.kind = "no matching offering found"
    /\ runErr.metric = metric

\* plan is the first offering of the catalog that fits size
FirstFit(plan, size) ==
    \E i \in 1..Len(offerings) :
        /\ plan = offerings[i]
        /\ FitsAt(i, size)
        /\ \A j \in 1..(i - 1) : ~FitsAt(j, size)
        /\ \A j \in 1..Len(offerings) :
              offerings[j].Memory < plan.Memory => ~FitsAt(j, size)

\* C1: when match succeeds it returns the lowest-index offering that fits:
\* the offering returned fits, none at an earlier position fits and none of
\* a strictly smaller capacity fits.
C1_MatchReturnsFirstFit ==
    /\ UsedMatched => FirstFit(plan1, Ri.UsedBytes)
    /\ PeakMatched => FirstFit(plan2, Ri.PeakBytes)

\* a match that returned the second of at least three offerings, whose
\* successor has the same capacity
C1_Witness ==
    /\ UsedMatched
    /\ Len(offerings) >= 3
    /\ plan1 = offerings[2]
    /\ offerings[3].Memory = offerings[2].Memory
    /\ Ri.UsedBytes > 0

\* C2: match returns the error "no matching offering found" exactly when no
\* offering of the catalog fits the size (for the empty catalog: always);
\* when some offering fits, it returns an offering and no error.
C2_NoFitErrorIffNothingFits ==
    /\ NoPlan("used") => \A i \in 1..Len(offerings) : ~FitsAt(i, Ri.UsedBytes)
    /\ UsedMatched => \E i \in 1..Len(offerings) : FitsAt(i, Ri.UsedBytes)
    /\ NoPlan("peak") => \A i \in 1..Len(offerings) : ~FitsAt(i, Ri.PeakBytes)
    /\ PeakMatched => \E i \in 1..Len(offerings) : FitsAt(i, Ri.PeakBytes)
    /\ (pcMain = "done" /\ matchIdx < Len(redisesInfo)) => NoPlan("used") \/ NoPlan("peak")

\* a catalog of two offerings or more, the used bytes matched and the peak
\* bytes too large for the largest offering
C2_Witness ==
    /\ NoPlan("peak")
    /\ Len(offerings) >= 2
    /\ \E i \in 1..Len(offerings) : FitsAt(i, Ri.UsedBytes)
    /\ offerings[Len(offerings)].Memory > 0

\* the last offering of the catalog, the one of the largest capacity
Largest == offerings[Len(offerings)]

\* the load-adjusted capacity of the largest offering, as match computes it
\* and as the product divided by 100
LargestAdjusted == (Largest.Memory \div 100) * args.maxLoadPct

LargestProduct == (Largest.Memory * args.maxLoadPct) \div 100

\* the loop has tried to match the used bytes of the first measurement
UsedTried == UsedMatched \/ NoPlan("used") \/ NoPlan("peak")

\* C3 as stated: with c the capacity of the largest offering and p the load
\* percent, match(c*p/100 + 1, p) fails, and match(c*p/100, p) succeeds and
\* returns the largest offering when no smaller one fits.
C3_BoundaryByProduct ==
    (Len(offerings) > 0 /\ UsedTried /\ matchIdx = 0) =>
        /\ Ri.UsedBytes = LargestProduct + 1 => NoPlan("used")
        /\ Ri.UsedBytes = LargestProduct => ~NoPlan("used")
        /\ (/\ Ri.UsedBytes = LargestProduct
            /\ UsedMatched
            /\ \A i \in 1..Len(offerings) :
                  offerings[i].Memory < Largest.Memory => ~FitsAt(i, Ri.UsedBytes))
           => plan1.Memory = Largest.Memory

\* C3, amended: the boundary is the capacity floor-divided by 100 first and
\* then multiplied by p: match(c/100*p + 1, p) fails, and match(c/100*p, p)
\* succeeds and returns the largest offering when no smaller one fits.
C3_BoundaryDivideFirst ==
    (Len(offerings) > 0 /\ UsedTried /\ matchIdx = 0) =>
        /\ Ri.UsedBytes = LargestAdjusted + 1 => NoPlan("used")
        /\ Ri.UsedBytes = LargestAdjusted => ~NoPlan("used")
        /\ (/\ Ri.UsedBytes = LargestAdjusted
            /\ UsedMatched
            /\ \A i \in 1..Len(offerings) :
                  offerings[i].Memory < Largest.Memory => ~FitsAt(i, Ri.UsedBytes))
           => plan1.Memory = Largest.Memory

\* a largest capacity that 100 does not divide, matched at exactly its
\* load-adjusted capacity, which no smaller offering covers
C3_Witness ==
    /\ Len(offerings) >= 2
    /\ UsedMatched
    /\ Largest.Memory % 100 # 0
    /\ LargestAdjusted # LargestProduct
    /\ Ri.UsedBytes = LargestAdjusted
    /\ plan1 = Largest
    /\ offerings[1].Memory > 0

\* how often x occurs in the sequence s
Count(s, x) == Cardinality({i \in DOMAIN s : s[i] = x})

\* the offerings the loop builds from the price list, in the list's order
Built == [i \in 1..Len(priceList) |-> OfferingOf(priceList[i], args.resMemPct)]

\* C4: once the pricing goroutine has returned nil, the catalog is ordered
\* non-decreasing by Memory and holds exactly the offerings built from the
\* fetched records, each as often as it was built.
C4_CatalogSortedPermutation ==
    pcPrice = "done" =>
        /\ \A i, j \in 1..Len(offerings) :
              i < j => offerings[i].Memory <= offerings[j].Memory
        /\ Len(offerings) = Len(priceList)
        /\ \A i \in 1..Len(priceList) :
              Count(offerings, Built[i]) = Count(Built, Built[i])

\* a finished catalog of two different offerings that the sort reordered
C4_Witness ==
    /\ pcPrice = "done"
    /\ Len(offerings) >= 2
    /\ offerings # Built
    /\ offerings[1].Memory < offerings[Len(offerings)].Memory

\* the advertised total memory of the i-th record, in bytes
Advertised(i) == (priceList[i].memory.n * GiB) \div priceList[i].memory.d

\* C5: every offering placed in the catalog has a capacity strictly greater
\* than 0, for every reserved-memory-percent that validation accepts and
\* every record whose advertised memory is strictly positive.
C5_CapacityPositive ==
    \A i \in 1..Len(offerings) : offerings[i].Memory > 0

\* the base the correction of the i-th record starts from: the exact
\* maxmemory value of its instance type when there is one, and its
\* advertised total memory otherwise
Base(i) ==
    IF priceList[i].instanceType.s \in DOMAIN maxmemoryValues
    THEN maxmemoryValues[priceList[i].instanceType.s]
    ELSE Advertised(i)

\* C6: while the catalog is built, the capacity of the offering of the i-th
\* record is base - (base/100)*r, with the floor division by 100 done first;
\* it is the base itself for r = 0, at most the base and never negative.
C6_ReservedCorrection ==
    pcPrice = "loop" =>
        \A i \in 1..Len(offerings) :
            /\ offerings[i].Memory = Base(i) - (Base(i) \div 100) * args.resMemPct
            /\ args.resMemPct = 0 => offerings[i].Memory = Base(i)
            /\ offerings[i].Memory <= Base(i)
            /\ offerings[i].Memory >= 0

\* a catalog under construction with an offering of a type with an exact
\* value and one of a type without, corrected by a non-zero percent from
\* bases that 100 does not divide
C6_Witness ==
    /\ pcPrice = "loop"
    /\ Len(offerings) = 2
    /\ args.resMemPct = defaultReservedMemoryPercent
    /\ priceList[1].instanceType.s \in DOMAIN maxmemoryValues
    /\ priceList[2].instanceType.s \notin DOMAIN maxmemoryValues
    /\ Base(1) % 100 # 0
    /\ Base(2) % 100 # 0
    /\ offerings[1].Memory < Base(1)
    /\ offerings[2].Memory < Base(2)

\* some offering of the catalog fits size
SomeFits(size) == \E i \in 1..Len(offerings) : FitsAt(i, size)

\* the k-th measurement cannot be matched on its used or on its peak bytes
Unmatchable(k) ==
    ~SomeFits(redisesInfo[k].UsedBytes) \/ ~SomeFits(redisesInfo[k].PeakBytes)

\* the matching loop has started
Matching ==
    \/ pcMain \in {"matchUsed", "matchPeak", "append"}
    \/ NoPlan("used")
    \/ NoPlan("peak")
    \/ report # <<>>

\* C7: if some measurement cannot be matched, run returns an error that names
\* the address of the first such measurement in input order and no report is
\* written, whatever matched before it; a report is written only when every
\* measurement matched on both metrics, and then it has a row for each.
C7_FailFastBatch ==
    /\ (pcMain = "done" /\ Matching /\ \E k \in 1..Len(redisesInfo) : Unmatchable(k)) =>
          /\ report = <<>>
          /\ NoPlan("used") \/ NoPlan("peak")
          /\ \E k \in 1..Len(redisesInfo) :
                /\ Unmatchable(k)
                /\ \A h \in 1..(k - 1) : ~Unmatchable(h)
                /\ runErr.addr = redises[k]
                /\ runErr.addr = redisesInfo[k].Addr
                /\ runErr.metric = IF SomeFits(redisesInfo[k].UsedBytes)
                                   THEN "peak" ELSE "used"
    /\ report # <<>> =>
          /\ \A k \in 1..Len(redisesInfo) : ~Unmatchable(k)
          /\ Len(report[1]) = Len(redisesInfo)

\* the second measurement fails on its peak bytes after the first one was
\* matched and its row built: run returns the error and writes nothing
C7_Witness ==
    /\ NoPlan("peak")
    /\ matchIdx = 1
    /\ Len(rows) = 1
    /\ report = <<>>
    /\ runErr.addr = redises[2]
    /\ redises[2] # redises[1]

\* C8: the matching loop runs only after the producer, every worker and the
\* pricing goroutine have returned: every slot of redisesInfo is filled with
\* the statistics of its address, and the catalog is complete and sorted.
C8_MatchingAfterJoin ==
    Matching =>
        /\ pcProd \in Returned
        /\ \A w \in DOMAIN workers : workers[w].pc \in Returned
        /\ pcPrice = "done"
        /\ Len(redisesInfo) = Len(redises)
        /\ \A k \in 1..Len(redises) :
              redisesInfo[k] # ZeroStats /\ redisesInfo[k].Addr = redises[k]
        /\ priceIdx = Len(priceList)
        /\ Len(offerings) = Len(priceList)
        /\ \A i, j \in 1..Len(offerings) :
              i < j => offerings[i].Memory <= offerings[j].Memory

\* the loop at work on two measurements and a catalog of two offerings that
\* were appended in descending order
C8_Witness ==
    /\ pcMain = "matchPeak"
    /\ Len(redises) = 2
    /\ Len(offerings) = 2
    /\ offerings # Built

\* a worker's fetch or the pricing goroutine (its request or the parsing of
\* a record) returned an error
SomeFetchFailed ==
    \/ pcPrice \in {"failed", "canceled"}
    \/ \E w \in DOMAIN workers : workers[w].pc \in {"failed", "canceled"}

\* C9: once a stats fetch or the pricing goroutine has returned an error,
\* run never starts the matching loop and writes no report; when it returns,
\* it returns an error, and does so after the join.
C9_FetchErrorAbortsRun ==
    SomeFetchFailed =>
        /\ ~Matching
        /\ pcMain \in {"wait", "done"}
        /\ rows = <<>> /\ report = <<>> /\ matchIdx = 0
        /\ pcMain = "done" => runErr # NoError /\ AllReturned

\* every statistics fetch succeeded and the second record of the price list
\* did not parse: run returned that error
C9_Witness ==
    /\ pcMain = "done"
    /\ pcPrice = "failed"
    /\ priceIdx = 1
    /\ Len(offerings) = 1
    /\ \A w \in DOMAIN workers : workers[w].pc = "done"
    /\ \A k \in 1..Len(redises) : redisesInfo[k] # ZeroStats
    /\ Len(redises) = 2
    /\ runErr.kind = "strconv.ParseFloat"

\* run returned the error of group.Wait
ReturnedGroupError == pcMain = "done" /\ AllReturned /\ SomeFetchFailed

\* C10: the error group.Wait hands to run is the error of the first
\* goroutine that failed, and never a cancellation error of a sibling.
C10_FirstErrorWins ==
    /\ groupErr.kind # "context canceled"
    /\ groupErr = firstFailure
    /\ ReturnedGroupError =>
          /\ runErr = firstFailure
          /\ runErr.kind \in {"redisMemory", "GetProducts", "cannot convert to string",
                              "unsupported memory spec format", "strconv.ParseFloat",
                              "unexpected memory value"}

\* a fetch failed, then the producer and the pricing request were cancelled,
\* and run returned the error of the fetch
C10_Witness ==
    /\ ReturnedGroupError
    /\ pcProd = "canceled"
    /\ pcPrice = "canceled"
    /\ \E w \in DOMAIN workers : workers[w].pc = "failed"
    /\ runErr.kind = "redisMemory"

\* worker w finishes a successful fetch in this step
Fetches(w) == workers[w].pc = "fetch" /\ workers'[w].pc = "recv"

\* C11: the i-th row of the report is for the i-th address of the input and
\* carries the statistics fetched for that address: a worker that finishes
\* a fetch writes the slot of its job's index, whose address is the one it
\* fetched from, and leaves every other slot alone; row i is built from
\* slot i. This holds for every assignment of jobs to workers and every
\* order in which the fetches finish.
C11_RowsMirrorInput ==
    /\ [][\A w \in DOMAIN workers :
            Fetches(w) =>
                /\ workers[w].addr = redises[workers[w].index]
                /\ redisesInfo'[workers[w].index].Addr = workers[w].addr
                /\ \A k \in 1..Len(redisesInfo) :
                      k # workers[w].index => redisesInfo'[k] = redisesInfo[k]]_vars
    /\ [](\A i \in 1..Len(rows) :
            /\ rows[i].Redis = redisesInfo[i]
            /\ rows[i].Redis.Addr = redises[i])
    /\ [](report # <<>> =>
            /\ Len(report[1]) = Len(redises)
            /\ \A i \in 1..Len(redises) :
                  /\ report[1][i].Redis.Addr = redises[i]
                  /\ report[1][i].Redis = redisesInfo[i])

\* a report of two rows for two different addresses, written after the
\* first worker fetched for the second address and the second for the first
C11_Witness ==
    /\ report # <<>>
    /\ Len(redises) = 2
    /\ redises[1] # redises[2]
    /\ workers[1].index = 2
    /\ workers[2].index = 1

\* C12: when a measurement cannot be matched, the error names the address of
\* the measurement and the metric, and the number it prints as GiB is the
\* byte value that failed to match divided by 2^30.
C12_PrintedAsGiB ==
    /\ NoPlan("used") =>
          /\ runErr.addr = Ri.Addr
          /\ runErr.printed = Ri.UsedBytes \div GiB
    /\ NoPlan("peak") =>
          /\ runErr.addr = Ri.Addr
          /\ runErr.printed = Ri.PeakBytes \div GiB

\* a record as the catalog's construction requires it: the memory a string
\* "<number> GiB" with a strictly positive number, the instance type a
\* string, the price a string that is a non-negative decimal
WellFormed(rec) ==
    /\ rec.memory.isString /\ rec.memory.hasSuffix
    /\ rec.memory.isNumber /\ rec.memory.n > 0
    /\ rec.instanceType.isString
    /\ rec.price.isString /\ rec.price.isNumber /\ rec.price.v >= 0

\* C13: no record that is not well formed, a record with a negative price
\* included, becomes an offering; such a record in the part of the price
\* list the loop has read makes the pricing goroutine return an error, and
\* the run then matches nothing, writes no report and returns an error.
C13_MalformedRejected ==
    /\ \A i \in 1..Len(offerings) : WellFormed(priceList[i])
    /\ (\E i \in 1..Len(priceList) : ~WellFormed(priceList[i])) =>
          /\ pcPrice # "done"
          /\ ~Matching
          /\ pcMain = "done" => runErr # NoError /\ report = <<>>

\* across the catalog the price does not decrease with the capacity
PriceMonotone ==
    \A i, j \in 1..Len(offerings) :
        offerings[i].Memory <= offerings[j].Memory =>
            offerings[i].PricePerHour <= offerings[j].PricePerHour

\* no offering that fits size is cheaper than plan
Cheapest(plan, size) ==
    \A i \in 1..Len(offerings) :
        Fits(offerings[i], size, args.maxLoadPct) =>
            plan.PricePerHour <= offerings[i].PricePerHour

\* the catalog of the run with every choice of prices
Repriced ==
    {[i \in 1..Len(offerings) |-> [offerings[i] EXCEPT !.PricePerHour = prices[i]]] :
     prices \in [1..Len(offerings) -> Prices]}

\* C14: when the price does not decrease with the capacity, the offering a
\* successful match returns has the lowest price of all offerings that fit;
\* and whatever the prices are, match on the same catalog with other prices
\* returns the offering at the same position.
C14_CheapestWhenPriceMonotone ==
    /\ (UsedMatched /\ PriceMonotone) => Cheapest(plan1, Ri.UsedBytes)
    /\ (PeakMatched /\ PriceMonotone) => Cheapest(plan2, Ri.PeakBytes)
    /\ UsedMatched =>
          \A c \in Repriced :
              LET m == match(c, Ri.UsedBytes, args.maxLoadPct)
              IN  /\ m.err = NoError
                  /\ m.of.InstanceType = plan1.InstanceType
                  /\ m.of.Memory = plan1.Memory
    /\ NoPlan("used") =>
          \A c \in Repriced : match(c, Ri.UsedBytes, args.maxLoadPct).err # NoError

\* a catalog whose price rises with the capacity, two offerings of different
\* prices that fit and one that does not: the cheaper one is returned
C14_Witness ==
    /\ UsedMatched
    /\ PriceMonotone
    /\ Len(offerings) = 3
    /\ ~Fits(offerings[1], Ri.UsedBytes, args.maxLoadPct)
    /\ plan1 = offerings[2]
    /\ offerings[2].PricePerHour < offerings[3].PricePerHour
    /\ Ri.UsedBytes > 0

\* the positions of the catalog whose offering fits size
FitSet(size) ==
    {i \in 1..Len(offerings) : Fits(offerings[i], size, args.maxLoadPct)}

\* in the catalog, an offering of at least the capacity of one that fits
\* size fits it too, and the offerings that fit are the last ones
FitIsSuffix(size) ==
    /\ \A i, j \in 1..Len(offerings) :
          (i \in FitSet(size) /\ offerings[i].Memory <= offerings[j].Memory)
              => j \in FitSet(size)
    /\ \E k \in 1..(Len(offerings) + 1) : FitSet(size) = k..Len(offerings)

\* C15: for the load percent of the run and the size match was called with,
\* whenever a capacity fits, every capacity at least as large fits too (among
\* the capacities of the catalog and among all capacities explored), so that
\* in the sorted catalog the offerings that fit form a suffix.
C15_MonotonicFit ==
    /\ UsedTried => FitIsSuffix(Ri.UsedBytes)
    /\ (PeakMatched \/ NoPlan("peak")) => FitIsSuffix(Ri.PeakBytes)
    /\ UsedTried =>
          \A a, b \in MatchCaps :
              (a <= b /\ Fits([Memory |-> a], Ri.UsedBytes, args.maxLoadPct))
                  => Fits([Memory |-> b], Ri.UsedBytes, args.maxLoadPct)

\* a match on a catalog of three offerings of which the first does not fit
\* and the last two do, the fitting ones of different capacities
C15_Witness ==
    /\ UsedMatched
    /\ Len(offerings) = 3
    /\ FitSet(Ri.UsedBytes) = {2, 3}
    /\ offerings[1].Memory > 0
    /\ offerings[2].Memory < offerings[3].Memory
    /\ plan1 = offerings[2]

\* size loads plan to at most the load percent of the run, and the
\* load-adjusted capacity of plan is at most its capacity
LoadBound(plan, size) ==
    /\ size * 100 <= plan.Memory * args.maxLoadPct
    /\ size * 100 <= plan.Memory * 100
    /\ (plan.Memory \div 100) * args.maxLoadPct <= plan.Memory

InRanges ==
    /\ args.region # ""
    /\ args.input # ""
    /\ args.maxLoadPct >= 1 /\ args.maxLoadPct <= 100
    /\ args.resMemPct >= 0 /\ args.resMemPct <= 100

\* the errors of the validation
ValidationErrors ==
    {"region cannot be empty", "input file must be set",
     "max-load must be in [1,100] percent range",
     "reserved-memory-percent must be in [0,100] range"}

\* run() has read no address, started no goroutine and matched nothing
NoWorkDone ==
    /\ redises = <<>> /\ redisesInfo = <<>> /\ maxWorkers = 0
    /\ pcProd = "none" /\ prodIdx = 0 /\ workers = <<>>
    /\ pcPrice = "none" /\ priceList = <<>> /\ offerings = <<>>
    /\ groupErr = NoError /\ ~ctxDone
    /\ matchIdx = 0 /\ rows = <<>> /\ report = <<>>

\* C16: with an argument outside its range (max-load outside [1,100],
\* reserved-memory-percent outside [0,100], an empty region or input) run
\* does nothing but return a validation error; with all arguments inside,
\* the ends of the ranges included, it never returns one.
C16_ValidationFirst ==
    /\ ~InRanges =>
          /\ pcMain \in {"validate", "done"}
          /\ NoWorkDone
          /\ pcMain = "done" => runErr.kind \in ValidationErrors
    /\ InRanges => runErr.kind \notin ValidationErrors
    /\ pcMain = "validate" => NoWorkDone

\* max-load at the upper end of its range and reserved-memory-percent just
\* above its own: run returned the error about the latter
C16_Witness ==
    /\ pcMain = "done"
    /\ args.region # "" /\ args.input # ""
    /\ args.maxLoadPct = 100
    /\ args.resMemPct = 101
    /\ runErr.kind = "reserved-memory-percent must be in [0,100] range"

\* the number of redisMemory calls in progress
InProgress == Cardinality({w \in DOMAIN workers : workers[w].pc = "fetch"})

\* the number of addresses, or the cap on the workers when there are more
PoolSize == IF Len(redises) > workerCap THEN workerCap ELSE Len(redises)

\* the goroutines have been started
Started == pcMain \notin {"validate", "setup", "start"}

Filled == {k \in 1..Len(redisesInfo) : redisesInfo[k] # ZeroStats}

\* the workers whose last job did not end in a write, or not yet: those at
\* work on a job and those that returned the error of a fetch
Holding == {w \in DOMAIN workers : workers[w].pc \in {"fetch", "failed", "canceled"}}

\* every job sent so far is with exactly one worker or in exactly one slot:
\* the jobs held are different ones, none of them is written, and together
\* with the written slots they are as many as the producer has sent
SlotsExclusive ==
    /\ \A w \in Holding :
          /\ workers[w].index \in 1..prodIdx
          /\ workers[w].index \notin Filled
          /\ workers[w].addr = redises[workers[w].index]
    /\ \A v, w \in Holding : v # w => workers[v].index # workers[w].index
    /\ Filled \subseteq 1..prodIdx
    /\ Cardinality(Filled) + Cardinality(Holding) = prodIdx
    /\ \A k \in Filled : redisesInfo[k].Addr = redises[k]

\* the catalog holds what the pricing goroutine has appended so far, and
\* the main goroutine reads it only after every goroutine has returned
CatalogPrivate ==
    /\ Len(offerings) = priceIdx
    /\ pcPrice \in {"none", "get"} => offerings = <<>>
    /\ Matching => AllReturned /\ pcPrice = "done"
    /\ (plan1 # ZeroOffering \/ plan2 # ZeroOffering) => Matching

\* no worker returned the error of a fetch
NoFetchFailed == \A w \in DOMAIN workers : workers[w].pc \notin {"failed", "canceled"}

\* C19 as stated: every index is sent at most once and received by one
\* worker, every slot is written at most once and never by two goroutines,
\* the catalog is written by the pricing goroutine alone and read after the
\* join; and when no fetch fails, every index is processed once.
C19_AllProcessedUnlessFetchFails ==
    /\ SlotsExclusive
    /\ CatalogPrivate
    /\ (AllReturned /\ NoFetchFailed) =>
          prodIdx = Len(redises) /\ Filled = 1..Len(redises)

\* C19, amended: the same, with every index processed once when no goroutine
\* of the group fails, the pricing goroutine included (its failure cancels
\* the producer, which may then leave addresses unsent).
C19_AllProcessedUnlessGroupFails ==
    /\ SlotsExclusive
    /\ CatalogPrivate
    /\ (AllReturned /\ groupErr = NoError) =>
          prodIdx = Len(redises) /\ Filled = 1..Len(redises)

\* two addresses, both fetched by the first worker while the second never
\* received a job, and the catalog built: every goroutine returned nil
C19_Witness ==
    /\ AllReturned
    /\ groupErr = NoError
    /\ Len(redises) = 2
    /\ workers[1].index = 2
    /\ workers[2].index = 0
    /\ Filled = {1, 2}
    /\ Len(offerings) = 2

\* every load percent validation accepts
LoadPcts == 1..100

\* match on the catalog of the run for size at load percent p succeeds with
\* an offering of a capacity of at most cap
MatchesWithin(size, p, cap) ==
    LET m == match(offerings, size, p)
    IN  m.err = NoError /\ m.of.Memory <= cap

\* plan, the offering match returned for size at the load percent of the
\* run, bounds what match returns for smaller sizes and for higher percents,
\* and is bounded by what it returns for lower percents
Monotone(plan, size) ==
    /\ \A s \in MatchSizes :
          s <= size => MatchesWithin(s, args.maxLoadPct, plan.Memory)
    /\ \A p \in LoadPcts :
          /\ p >= args.maxLoadPct => MatchesWithin(size, p, plan.Memory)
          /\ (p <= args.maxLoadPct /\ match(offerings, size, p).err = NoError)
                => match(offerings, size, p).of.Memory >= plan.Memory

\* C21: over the sorted catalog, when match succeeds for a size it succeeds
\* for every smaller size and for every higher load percent with an offering
\* of no larger capacity; so the peak-based offering of a measurement is at
\* least as large as its used-based one, a size that fails to match makes
\* every larger size and every lower percent fail, and a size of 0 gets the
\* first offering of a non-empty catalog.
C21_MatchMonotone ==
    /\ UsedMatched => Monotone(plan1, Ri.UsedBytes)
    /\ PeakMatched =>
          /\ Monotone(plan2, Ri.PeakBytes)
          /\ plan1.Memory <= plan2.Memory
    /\ NoPlan("used") =>
          /\ match(offerings, Ri.PeakBytes, args.maxLoadPct).err # NoError
          /\ \A p \in LoadPcts :
                p <= args.maxLoadPct => match(offerings, Ri.UsedBytes, p).err # NoError
    /\ (UsedTried /\ Ri.UsedBytes = 0 /\ Len(offerings) > 0) =>
          ~NoPlan("used") /\ plan1 = offerings[1]

\* a measurement whose peak bytes got a larger offering than its used bytes,
\* and would get a smaller one at a higher load percent
C21_Witness ==
    /\ PeakMatched
    /\ Ri.UsedBytes > 0
    /\ Ri.UsedBytes < Ri.PeakBytes
    /\ plan1.Memory < plan2.Memory
    /\ \E p \in LoadPcts :
          /\ p > args.maxLoadPct
          /\ match(offerings, Ri.PeakBytes, p).of.Memory < plan2.Memory

=============================================================================
